---- MODULE Spec2Model ----
(***************************************************************************)
(* meshify: a CSV pipeline that appends a regional mesh code to every row  *)
(* (src/main.rs).                                                          *)
(*                                                                         *)
(* Numbers.  An f64 is modelled as a record [k, v]:                        *)
(*   k = "num": a finite value; v is an integer.  Angles are held in units *)
(*              of 1/8 arc second (1 degree = 28800 units), the grid on    *)
(*              which every cell width used by get_mesh_code (down to      *)
(*              3.75'' and 5.625'') is an integer, so floor() and % are    *)
(*              exact.  Cell indices are plain integers.                   *)
(*   k = "nan": NaN;   k = "inf": an infinity of sign v.                   *)
(* Texts (CSV fields, mesh codes) are sequences of one-character strings.  *)
(***************************************************************************)
EXTENDS Integers, Sequences, FiniteSets, TLC

\* ------------------------------------------------------------------------
\* f64 values and the operations get_mesh_code applies to them
\* ------------------------------------------------------------------------
Num(n) == [k |-> "num", v |-> n]

NaN == [k |-> "nan", v |-> 0]

Inf(sgn) == [k |-> "inf", v |-> sgn]

IsNum(x) == x.k = "num"

\* units of 1/8 arc second in one degree
DEG == 60 * 60 * 8

\* (x / w).floor(), w > 0 finite
FFloorDiv(x, w) ==
    IF x.k = "num" THEN Num(x.v \div w) ELSE x

\* Rust's x % w on f64 is fmod: the remainder of the division truncated
\* toward zero, so it carries the sign of x; inf % w is NaN
TruncRem(n, w) == IF n >= 0 THEN n % w ELSE 0 - ((0 - n) % w)

FRem(x, w) ==
    IF x.k = "num" THEN Num(TruncRem(x.v, w)) ELSE NaN

\* lon - lon.floor()  (inf - inf is NaN)
FFrac(x) ==
    IF x.k = "num" THEN Num(x.v - DEG * (x.v \div DEG)) ELSE NaN

\* x + n for a finite integer n
FAddInt(x, n) ==
    IF x.k = "num" THEN Num(x.v + n) ELSE x

\* (s * 2.0) + x + 1.0
FQuad(s, x) ==
    IF s.k = "nan" \/ x.k = "nan" THEN NaN
    ELSE IF s.k = "inf" /\ x.k = "inf" /\ s.v # x.v THEN NaN
    ELSE IF s.k = "inf" THEN s
    ELSE IF x.k = "inf" THEN x
    ELSE Num(2 * s.v + x.v + 1)

\* ------------------------------------------------------------------------
\* integer-to-text conversion
\* ------------------------------------------------------------------------
Digits == <<"0", "1", "2", "3", "4", "5", "6", "7", "8", "9">>

DigitChars == {Digits[i] : i \in 1..10}

DigitVal(c) == CHOOSE d \in 0..9 : Digits[d + 1] = c

RECURSIVE NatToString(_)
\* u32::to_string: decimal, no padding
NatToString(n) ==
    IF n < 10 THEN <<Digits[n + 1]>>
    ELSE NatToString(n \div 10) \o <<Digits[(n % 10) + 1]>>

\* u32::MAX rendered in decimal (4294967295 exceeds TLC's 32-bit
\* integers, so it is kept as text)
U32MaxText == <<"4", "2", "9", "4", "9", "6", "7", "2", "9", "5">>

\* plain decimal rendering of an integer
IntToString(n) ==
    IF n < 0 THEN <<"-">> \o NatToString(0 - n) ELSE NatToString(n)

\* the cast written as i32: a negative value keeps its sign
FmtAsI32(x) ==
    IF x.k = "nan" THEN <<"0">>
    ELSE IF x.k = "inf" THEN (IF x.v > 0 THEN U32MaxText ELSE <<"0">>)
    ELSE IntToString(x.v)

\* format!("{}", x as u32): the cast saturates, NaN and negatives give 0
FmtAsU32(x) ==
    IF x.k = "nan" THEN <<"0">>
    ELSE IF x.k = "inf" THEN (IF x.v > 0 THEN U32MaxText ELSE <<"0">>)
    ELSE IF x.v < 0 THEN <<"0">>
    ELSE NatToString(x.v)

\* ------------------------------------------------------------------------
\* get_mesh_code
\* ------------------------------------------------------------------------
Levels == <<"Standard", "Half", "Quarter", "Eighth">>

LevelSet == {Levels[i] : i \in 1..4}

\* cell widths, in units of 1/8 arc second
W_p == 40 * 60 * 8
W_q == 5 * 60 * 8
W_r == 30 * 8
W_v == 450 * 8
W_w == 45 * 8
W_s == 15 * 8
W_x == (225 * 8) \div 10
W_t == (75 * 8) \div 10
W_y == (1125 * 8) \div 100
W_t2 == (375 * 8) \div 100
W_y2 == (5625 * 8) \div 1000

\* the latitude chain p, q, r and the remainder c_rem
LatBase(lat) ==
    LET lat_min == lat
        p == FFloorDiv(lat_min, W_p)
        a_rem == FRem(lat_min, W_p)
        q == FFloorDiv(a_rem, W_q)
        b_rem == FRem(a_rem, W_q)
        lat_sec_in_b == b_rem
        r == FFloorDiv(lat_sec_in_b, W_r)
        c_rem == FRem(lat_sec_in_b, W_r)
    IN [p |-> p, q |-> q, r |-> r, c_rem |-> c_rem]

\* the longitude chain u, v, w and the remainder h_rem
LonBase(lon) ==
    LET lon_deg_rem == FFrac(lon)
        u == FAddInt(FFloorDiv(lon, DEG), -100)
        lon_min_rem == lon_deg_rem
        v == FFloorDiv(lon_min_rem, W_v)
        g_rem == FRem(lon_min_rem, W_v)
        lon_sec_in_g == g_rem
        w == FFloorDiv(lon_sec_in_g, W_w)
        h_rem == FRem(lon_sec_in_g, W_w)
    IN [u |-> u, v |-> v, w |-> w, h_rem |-> h_rem]

\* format!("{}{}{}{}{}{}", p as u32, u as u32, q as u32, v as u32, r as u32, w as u32)
BaseCode(la, lo) ==
    FmtAsU32(la.p) \o FmtAsU32(lo.u) \o FmtAsU32(la.q)
        \o FmtAsU32(lo.v) \o FmtAsU32(la.r) \o FmtAsU32(lo.w)

\* one refinement stage: the quadrant number of the remainders (cl, ch)
\* for half-widths (wl, wh)
Quadrant(cl, ch, wl, wh) == FQuad(FFloorDiv(cl, wl), FFloorDiv(ch, wh))

get_mesh_code(lat, lon, level) ==
    LET la == LatBase(lat)
        lo == LonBase(lon)
        code == BaseCode(la, lo)
        c_rem == la.c_rem
        h_rem == lo.h_rem
        m == Quadrant(c_rem, h_rem, W_s, W_x)
        d_rem == FRem(c_rem, W_s)
        i_rem == FRem(h_rem, W_x)
        n == Quadrant(d_rem, i_rem, W_t, W_y)
        e_rem == FRem(d_rem, W_t)
        j_rem == FRem(i_rem, W_y)
        o == Quadrant(e_rem, j_rem, W_t2, W_y2)
    IN IF level = "Standard" THEN code
       ELSE IF level = "Half" THEN code \o FmtAsU32(m)
       ELSE IF level = "Quarter" THEN code \o FmtAsU32(m) \o FmtAsU32(n)
       ELSE code \o FmtAsU32(m) \o FmtAsU32(n) \o FmtAsU32(o)

\* ------------------------------------------------------------------------
\* str::trim and str::parse::<f64>
\* ------------------------------------------------------------------------
WhiteSpace == {" ", "\t", "\r", "\n"}

RECURSIVE TrimStart(_)
TrimStart(s) ==
    IF s # <<>> /\ Head(s) \in WhiteSpace THEN TrimStart(Tail(s)) ELSE s

RECURSIVE TrimEnd(_)
TrimEnd(s) ==
    IF s # <<>> /\ s[Len(s)] \in WhiteSpace
    THEN TrimEnd(SubSeq(s, 1, Len(s) - 1)) ELSE s

Trim(s) == TrimEnd(TrimStart(s))

AllDigits(s) == \A i \in 1..Len(s) : s[i] \in DigitChars

RECURSIVE DigitsToNat(_)
DigitsToNat(s) ==
    IF s = <<>> THEN 0
    ELSE 10 * DigitsToNat(SubSeq(s, 1, Len(s) - 1)) + DigitVal(s[Len(s)])

RECURSIVE Pow10(_)
Pow10(n) == IF n = 0 THEN 1 ELSE 10 * Pow10(n - 1)

\* position of the first character of s that is in the set cs, 0 if none
FirstIn(s, cs) ==
    IF \E i \in 1..Len(s) : s[i] \in cs
    THEN CHOOSE i \in 1..Len(s) : s[i] \in cs /\ \A j \in 1..(i - 1) : s[j] \notin cs
    ELSE 0

Lower(c) ==
    CASE c = "N" -> "n" [] c = "A" -> "a" [] c = "I" -> "i" [] c = "F" -> "f"
      [] c = "T" -> "t" [] c = "Y" -> "y" [] OTHER -> c

LowerAll(s) == [i \in 1..Len(s) |-> Lower(s[i])]

Err == [ok |-> FALSE, val |-> NaN]

Ok(x) == [ok |-> TRUE, val |-> x]

\* the decimal grammar of f64::from_str, after the sign:
\*   digits [ "." digits ] [ ("e"|"E") [sign] digits ], at least one
\*   mantissa digit; the value is placed on the 1/8'' grid
ParseNumber(s, sgn) ==
    LET ePos == FirstIn(s, {"e", "E"})
        mant == IF ePos = 0 THEN s ELSE SubSeq(s, 1, ePos - 1)
        expo == IF ePos = 0 THEN <<>> ELSE SubSeq(s, ePos + 1, Len(s))
        eNeg == expo # <<>> /\ Head(expo) = "-"
        eDig == IF expo # <<>> /\ Head(expo) \in {"+", "-"} THEN Tail(expo) ELSE expo
        dot == FirstIn(mant, {"."})
        ip == IF dot = 0 THEN mant ELSE SubSeq(mant, 1, dot - 1)
        fp == IF dot = 0 THEN <<>> ELSE SubSeq(mant, dot + 1, Len(mant))
        wellFormed == /\ AllDigits(ip) /\ AllDigits(fp)
                      /\ Len(ip) + Len(fp) >= 1
                      /\ (ePos # 0 => (eDig # <<>> /\ AllDigits(eDig)))
        e == IF eNeg THEN 0 - DigitsToNat(eDig) ELSE DigitsToNat(eDig)
        scale == e - Len(fp)
        mag == IF scale >= 0
               THEN DigitsToNat(ip \o fp) * DEG * Pow10(scale)
               ELSE (DigitsToNat(ip \o fp) * DEG) \div Pow10(0 - scale)
    IN IF wellFormed THEN Ok(Num(sgn * mag)) ELSE Err

\* "nan", "inf", "infinity" in any letter case
ParseInfNan(s, sgn) ==
    LET l == LowerAll(s)
    IN IF l = <<"n", "a", "n">> THEN Ok(NaN)
       ELSE IF l = <<"i", "n", "f">> \/ l = <<"i", "n", "f", "i", "n", "i", "t", "y">>
            THEN Ok(Inf(sgn))
       ELSE Err

\* s.parse::<f64>()
ParseF64(s) ==
    LET signed == s # <<>> /\ Head(s) \in {"+", "-"}
        sgn == IF s # <<>> /\ Head(s) = "-" THEN -1 ELSE 1
        rest == IF signed THEN Tail(s) ELSE s
        n == ParseNumber(rest, sgn)
    IN IF rest = <<>> THEN Err
       ELSE IF n.ok THEN n
       ELSE ParseInfNan(rest, sgn)

\* field.trim().parse()
ParseField(s) == ParseF64(Trim(s))

\* ------------------------------------------------------------------------
\* bounds of the model
\* ------------------------------------------------------------------------
\* longest input file, in data records
MaxRows == 3

\* sub-cell offsets tried inside one base cell, per axis (0..MaxSub)
MaxSub == 7

\* ------------------------------------------------------------------------
\* inputs of the pipeline
\* ------------------------------------------------------------------------
\* the header of the input file
Headers == <<"id", "lat", "lon">>

\* values of --lat and --lon
LatNames == {"lat", "latitude"}

LonNames == {"lon", "lng"}

DatumSet == {"WGS", "JGS"}

\* records of the input file: the fields of one data record
RowFields ==
    { << <<"1">>, <<"3", "5", ".", "5">>, <<"1", "3", "9", ".", "7", "5">> >>,
      << <<"2">>, <<" ", "3", "6", " ">>, <<"1", "4", "0">> >>,
      << <<"3">>, <<" ", "a", "b", "c">>, <<"1", "3", "9">> >>,
      << <<"4">>, <<"3", "5">>, <<>> >>,
      << <<"5">>, <<"x">>, <<"y", " ">> >>,
      << <<"6">>, <<"N", "a", "N">>, <<"i", "n", "f">> >>,
      << <<"7">>, <<"3", "5">> >> }

\* csv::Reader gives every record its position; with one record per line
\* and the header on line 1, record i starts on line i + 1
LineOf(i) == i + 1

InputFiles ==
    UNION { { [i \in 1..n |-> [fields |-> f[i], line |-> LineOf(i)]] :
                f \in [1..n -> RowFields] } : n \in 0..MaxRows }

\* ------------------------------------------------------------------------
\* inputs of the encoder
\* ------------------------------------------------------------------------
LatBases == {0 - 90 * DEG, 0 - (DEG \div 2), 3 * DEG + (DEG \div 2),
             34 * DEG + 10 * 480, 35 * DEG + 19858}

LonBases == {0 - 180 * DEG, 99 * DEG + (DEG \div 2), 102 * DEG, 112 * DEG,
             139 * DEG + 19921}

NonFinite == {NaN, Inf(1), Inf(-1)}

LatInputs == NonFinite \cup {Num(b + k * W_t2) : b \in LatBases, k \in 0..MaxSub}

LonInputs == NonFinite \cup {Num(b + k * W_y2) : b \in LonBases, k \in 0..MaxSub}

OtherLats == {Num(3 * DEG + (DEG \div 2)), Num(34 * DEG + 10 * 480)}

OtherLons == {Num(102 * DEG), Num(112 * DEG), Num(139 * DEG + 19921)}

\* ------------------------------------------------------------------------
\* state
\* ------------------------------------------------------------------------
VARIABLES
    args,         \* Args: lat, lon (column names), datum, level
    headers,      \* header record of the input
    rows,         \* data records of the input, each with its line number
    pc,           \* position in main
    err,          \* the error main returned, "none" while there is none
    lat_idx,      \* resolved column positions (1-based, 0 = not resolved)
    lon_idx,
    next_rec,     \* index of the next record reader.records() yields
    out_header,   \* header record written to the output, <<>> if none
    out,          \* data records written to the output
    warnings,     \* lines printed to stderr
    convert_log,  \* calls of proj.convert: line of the record, success
    elat, elon,   \* encoder harness: the coordinate being encoded
    codes,        \* codes[i] = get_mesh_code(elat, elon, Levels[i])
    olat, olon,   \* a second coordinate, encoded at Standard
    ocode

pvars == <<args, headers, rows, pc, err, lat_idx, lon_idx, next_rec,
           out_header, out, warnings, convert_log>>

evars == <<elat, elon, codes, olat, olon, ocode>>

vars == <<args, headers, rows, pc, err, lat_idx, lon_idx, next_rec,
          out_header, out, warnings, convert_log,
          elat, elon, codes, olat, olon, ocode>>

\* ------------------------------------------------------------------------
\* main
\* ------------------------------------------------------------------------
\* position() with a default of the first column instead of None
PositionOrFirst(hs, name) ==
    IF \E i \in 1..Len(hs) : hs[i] = name
    THEN CHOOSE i \in 1..Len(hs) : hs[i] = name /\ \A j \in 1..(i - 1) : hs[j] # name
    ELSE 1

\* headers.iter().position(|h| h == name): 1-based, 0 for None
Position(hs, name) ==
    IF \E i \in 1..Len(hs) : hs[i] = name
    THEN CHOOSE i \in 1..Len(hs) : hs[i] = name /\ \A j \in 1..(i - 1) : hs[j] # name
    ELSE 0

\* the code put in front of the record instead of behind it
PushFieldFront(fields, code) == <<code>> \o fields

\* record.push_field(&mesh_code)
PushField(fields, code) == Append(fields, code)

\* the warning with the record's 0-based index instead of its line
WarningZeroBased(line, role, text) == [line |-> line - 2, role |-> role, text |-> text]

\* the eprintln! of a skipped row
Warning(line, role, text) == [line |-> line, role |-> role, text |-> text]

\* proj.convert((lon, lat)): the PROJ library is external; a call either
\* fails or returns a shifted (lon, lat)
Shifts == {<<0, 0>>, <<0 - 92, 93>>}

ConvertResults(lon, lat) ==
    {[ok |-> FALSE, lon |-> lon, lat |-> lat]}
    \cup {[ok |-> TRUE, lon |-> FAddInt(lon, s[1]), lat |-> FAddInt(lat, s[2])] :
            s \in Shifts}

\* the state after reader and writer are opened
PipelineInit ==
    /\ args \in [lat : LatNames, lon : LonNames, datum : DatumSet, level : LevelSet]
    /\ headers = Headers
    /\ rows \in InputFiles
    /\ pc = "headers"
    /\ err = "none"
    /\ lat_idx = 0
    /\ lon_idx = 0
    /\ next_rec = 1
    /\ out_header = <<>>
    /\ out = <<>>
    /\ warnings = <<>>
    /\ convert_log = <<>>

Fatal(e) ==
    /\ pc' = "fatal"
    /\ err' = e

\* lines 66-78: both columns found, the output header is written
ResolveColumns ==
    /\ pc = "headers"
    /\ Position(headers, args.lat) # 0
    /\ Position(headers, args.lon) # 0
    /\ lat_idx' = Position(headers, args.lat)
    /\ lon_idx' = Position(headers, args.lon)
    /\ out_header' = Append(headers, "mesh_code")
    /\ pc' = "proj"
    /\ UNCHANGED <<args, headers, rows, err, next_rec, out, warnings, convert_log>>

\* lines 67-74: ok_or(...)? returns the error of the first missing column
ColumnNotFound ==
    /\ pc = "headers"
    /\ \/ /\ Position(headers, args.lat) = 0
          /\ Fatal("lat_col")
       \/ /\ Position(headers, args.lat) # 0
          /\ Position(headers, args.lon) = 0
          /\ Fatal("lon_col")
    /\ UNCHANGED <<args, headers, rows, lat_idx, lon_idx, next_rec,
                   out_header, out, warnings, convert_log>>

\* line 81: Proj::new_known_crs succeeds
NewProj ==
    /\ pc = "proj"
    /\ pc' = "loop"
    /\ UNCHANGED <<args, headers, rows, err, lat_idx, lon_idx, next_rec,
                   out_header, out, warnings, convert_log>>

\* line 81: Proj::new_known_crs fails and ? returns the error
NewProjError ==
    /\ pc = "proj"
    /\ Fatal("proj")
    /\ UNCHANGED <<args, headers, rows, lat_idx, lon_idx, next_rec,
                   out_header, out, warnings, convert_log>>

InLoop == pc = "loop" /\ next_rec <= Len(rows)

Record == rows[next_rec]

\* a record as long as the header (the reader is not flexible)
WellFormed(rec) == Len(rec.fields) = Len(headers)

\* line 84: the reader yields an error for a record of another length
RecordError ==
    /\ InLoop
    /\ ~WellFormed(Record)
    /\ next_rec' = next_rec + 1
    /\ Fatal("csv")
    /\ UNCHANGED <<args, headers, rows, lat_idx, lon_idx,
                   out_header, out, warnings, convert_log>>

\* lines 89-97: the latitude field does not parse
SkipLat ==
    /\ InLoop
    /\ WellFormed(Record)
    /\ ~ParseField(Record.fields[lat_idx]).ok
    /\ warnings' = Append(warnings,
                     Warning(Record.line, "latitude", Record.fields[lat_idx]))
    /\ next_rec' = next_rec + 1
    /\ UNCHANGED <<args, headers, rows, pc, err, lat_idx, lon_idx,
                   out_header, out, convert_log>>

\* lines 99-106: the latitude parsed, the longitude field does not
SkipLon ==
    /\ InLoop
    /\ WellFormed(Record)
    /\ ParseField(Record.fields[lat_idx]).ok
    /\ ~ParseField(Record.fields[lon_idx]).ok
    /\ warnings' = Append(warnings,
                     Warning(Record.line, "longitude", Record.fields[lon_idx]))
    /\ next_rec' = next_rec + 1
    /\ UNCHANGED <<args, headers, rows, pc, err, lat_idx, lon_idx,
                   out_header, out, convert_log>>

BothParse(rec) ==
    /\ ParseField(rec.fields[lat_idx]).ok
    /\ ParseField(rec.fields[lon_idx]).ok

\* lines 108-120, datum WGS: the parsed coordinate is encoded as it is
WriteRowWGS ==
    /\ InLoop
    /\ WellFormed(Record)
    /\ BothParse(Record)
    /\ args.datum = "WGS"
    /\ LET lat == ParseField(Record.fields[lat_idx]).val
           lon == ParseField(Record.fields[lon_idx]).val
           mesh_code == get_mesh_code(lat, lon, args.level)
       IN out' = Append(out, PushField(Record.fields, mesh_code))
    /\ next_rec' = next_rec + 1
    /\ UNCHANGED <<args, headers, rows, pc, err, lat_idx, lon_idx,
                   out_header, warnings, convert_log>>

\* lines 108-120, datum JGS: proj.convert succeeds, its result is encoded
WriteRowJGS ==
    /\ InLoop
    /\ WellFormed(Record)
    /\ BothParse(Record)
    /\ args.datum = "JGS"
    /\ LET lat == ParseField(Record.fields[lat_idx]).val
           lon == ParseField(Record.fields[lon_idx]).val
       IN \E res \in ConvertResults(lon, lat) :
            /\ res.ok
            /\ out' = Append(out, PushField(Record.fields,
                               get_mesh_code(res.lat, res.lon, args.level)))
    /\ convert_log' = Append(convert_log, [line |-> Record.line, ok |-> TRUE])
    /\ next_rec' = next_rec + 1
    /\ UNCHANGED <<args, headers, rows, pc, err, lat_idx, lon_idx,
                   out_header, warnings>>

\* a failed conversion handled like a parse failure: skip the row, go on
ConvertErrorSkip ==
    /\ InLoop
    /\ WellFormed(Record)
    /\ BothParse(Record)
    /\ args.datum = "JGS"
    /\ convert_log' = Append(convert_log, [line |-> Record.line, ok |-> FALSE])
    /\ next_rec' = next_rec + 1
    /\ UNCHANGED <<args, headers, rows, pc, err, lat_idx, lon_idx,
                   out_header, out, warnings>>

\* line 111: proj.convert fails and ? returns the error
ConvertError ==
    /\ InLoop
    /\ WellFormed(Record)
    /\ BothParse(Record)
    /\ args.datum = "JGS"
    /\ LET lat == ParseField(Record.fields[lat_idx]).val
           lon == ParseField(Record.fields[lon_idx]).val
       IN \E res \in ConvertResults(lon, lat) : ~res.ok
    /\ convert_log' = Append(convert_log, [line |-> Record.line, ok |-> FALSE])
    /\ next_rec' = next_rec + 1
    /\ Fatal("convert")
    /\ UNCHANGED <<args, headers, rows, lat_idx, lon_idx,
                   out_header, out, warnings>>

\* lines 121-124: the records are exhausted, the writer is flushed
Finish ==
    /\ pc = "loop"
    /\ next_rec > Len(rows)
    /\ pc' = "done"
    /\ UNCHANGED <<args, headers, rows, err, lat_idx, lon_idx, next_rec,
                   out_header, out, warnings, convert_log>>

\* the encoder harness is idle while main runs
HarnessIdle ==
    /\ elat = NaN /\ elon = NaN /\ codes = <<>>
    /\ olat = NaN /\ olon = NaN /\ ocode = <<>>

Init == PipelineInit /\ HarnessIdle

Next ==
    \/ (ResolveColumns /\ UNCHANGED evars)
    \/ (ColumnNotFound /\ UNCHANGED evars)
    \/ (NewProj /\ UNCHANGED evars)
    \/ (NewProjError /\ UNCHANGED evars)
    \/ (RecordError /\ UNCHANGED evars)
    \/ (SkipLat /\ UNCHANGED evars)
    \/ (SkipLon /\ UNCHANGED evars)
    \/ (WriteRowWGS /\ UNCHANGED evars)
    \/ (WriteRowJGS /\ UNCHANGED evars)
    \/ (ConvertError /\ UNCHANGED evars)
    \/ (Finish /\ UNCHANGED evars)

Spec == Init /\ [][Next]_vars

\* ------------------------------------------------------------------------
\* the encoder called on its own
\* ------------------------------------------------------------------------
PipelineIdle ==
    /\ args = [lat |-> "lat", lon |-> "lon", datum |-> "WGS", level |-> "Standard"]
    /\ headers = Headers
    /\ rows = <<>>
    /\ pc = "encoder"
    /\ err = "none"
    /\ lat_idx = 0
    /\ lon_idx = 0
    /\ next_rec = 1
    /\ out_header = <<>>
    /\ out = <<>>
    /\ warnings = <<>>
    /\ convert_log = <<>>

InitEnc ==
    /\ PipelineIdle
    /\ elat \in LatInputs
    /\ elon \in LonInputs
    /\ codes = <<>>
    /\ olat \in OtherLats
    /\ olon \in OtherLons
    /\ ocode = <<>>

\* get_mesh_code(elat, elon, level) for the next level, coarsest first
EncodeNextLevel ==
    /\ Len(codes) < 4
    /\ codes' = Append(codes, get_mesh_code(elat, elon, Levels[Len(codes) + 1]))
    /\ UNCHANGED <<elat, elon, olat, olon, ocode>>
    /\ UNCHANGED pvars

\* get_mesh_code(olat, olon, Standard)
EncodeOther ==
    /\ ocode = <<>>
    /\ ocode' = get_mesh_code(olat, olon, "Standard")
    /\ UNCHANGED <<elat, elon, codes, olat, olon>>
    /\ UNCHANGED pvars

NextEnc == EncodeNextLevel \/ EncodeOther

SpecEnc == InitEnc /\ [][NextEnc]_vars

\* ------------------------------------------------------------------------
\* properties of main
\* ------------------------------------------------------------------------
Resolved == lat_idx # 0 /\ lon_idx # 0

\* the records main has taken from the reader so far
ReadSoFar == SubSeq(rows, 1, next_rec - 1)

Parsed(rec) == WellFormed(rec) /\ BothParse(rec)

Skipped(rec) == WellFormed(rec) /\ ~BothParse(rec)

\* row is fields with exactly one field appended
Augments(row, fields) ==
    /\ Len(row) = Len(fields) + 1
    /\ SubSeq(row, 1, Len(fields)) = fields

\* out is, in order, the parsed records among rs, each with one field more
OutputOf(rs) ==
    LET kept == SelectSeq(rs, Parsed)
    IN /\ Len(out) = Len(kept)
       /\ \A i \in 1..Len(kept) : Augments(out[i], kept[i].fields)

\* C1: while no fatal error has occurred, the data rows written are exactly
\* the rows read so far whose latitude and longitude parsed, in input
\* order, each equal to its input row plus one appended field; when the run
\* is done all N rows have been read, so N - k rows are written.
InvC1 ==
    pc \in {"loop", "done"} =>
        /\ OutputOf(ReadSoFar)
        /\ pc = "done" =>
             /\ next_rec = Len(rows) + 1
             /\ Len(out) = Len(rows) - Len(SelectSeq(rows, Skipped))

WitC1 ==
    /\ pc = "done"
    /\ Len(rows) = 3
    /\ Skipped(rows[2])
    /\ Len(out) = 2
    /\ out[1] # out[2]

HeaderNames == {headers[i] : i \in 1..Len(headers)}

\* C5: when --lat or --lon names no column of the header, the run can only
\* stop with the column-not-found error: no record is read, nothing is
\* parsed, converted, warned about or written, the output header included.
InvC5 ==
    (args.lat \notin HeaderNames \/ args.lon \notin HeaderNames) =>
        /\ pc \in {"headers", "fatal"}
        /\ pc = "fatal" => err \in {"lat_col", "lon_col"}
        /\ next_rec = 1
        /\ out_header = <<>>
        /\ out = <<>>
        /\ warnings = <<>>
        /\ convert_log = <<>>

WitC5 ==
    /\ pc = "fatal"
    /\ err = "lon_col"
    /\ Len(rows) > 0

\* the warning a skipped record must produce
ExpectedWarning(rec) ==
    IF ~ParseField(rec.fields[lat_idx]).ok
    THEN [line |-> rec.line, role |-> "latitude", text |-> rec.fields[lat_idx]]
    ELSE [line |-> rec.line, role |-> "longitude", text |-> rec.fields[lon_idx]]

\* C6: the warnings are, in order, one per skipped row and none for any
\* other row; each carries the row's line number and the raw field text,
\* names latitude when the latitude field fails (whatever the longitude
\* field is) and longitude only when the latitude parsed.
InvC6 ==
    IF Resolved
    THEN LET skipped == SelectSeq(ReadSoFar, Skipped)
         IN /\ Len(warnings) = Len(skipped)
            /\ \A i \in 1..Len(skipped) : warnings[i] = ExpectedWarning(skipped[i])
    ELSE warnings = <<>>

WitC6 ==
    /\ Len(out) >= 1
    /\ \E i, j \in 1..Len(warnings) :
         /\ warnings[i].role = "latitude"
         /\ ~ParseField(rows[warnings[i].line - 1].fields[lon_idx]).ok
         /\ warnings[j].role = "longitude"
         /\ warnings[j].text = <<>>

\* C7: once a proj.convert call has failed, the run is in the fatal state
\* with the conversion error; the failing call is the last one, it was made
\* for the last record read, whose two fields parsed; that record is not
\* written, and the output and the warnings are those of the records before
\* it, in order.
InvC7 ==
    (\E i \in 1..Len(convert_log) : ~convert_log[i].ok) =>
        /\ args.datum = "JGS"
        /\ pc = "fatal"
        /\ err = "convert"
        /\ \A i \in 1..Len(convert_log) : ~convert_log[i].ok => i = Len(convert_log)
        /\ next_rec >= 2
        /\ rows[next_rec - 1].line = convert_log[Len(convert_log)].line
        /\ Parsed(rows[next_rec - 1])
        /\ OutputOf(SubSeq(rows, 1, next_rec - 2))
        /\ Len(out) = Len(convert_log) - 1
        /\ \A i \in 1..Len(warnings) : warnings[i].line < rows[next_rec - 1].line

WitC7 ==
    /\ err = "convert"
    /\ Len(out) >= 1
    /\ next_rec <= Len(rows)

\* a text that denotes a finite decimal number
FiniteNumber(text) ==
    /\ ParseField(text).ok
    /\ IsNum(ParseField(text).val)

\* C4: every row that received a mesh code has a finite latitude and a
\* finite longitude; a row with a field such as "NaN" or "inf" is dropped.
InvC4 ==
    \A i \in 1..Len(out) :
        /\ FiniteNumber(out[i][lat_idx])
        /\ FiniteNumber(out[i][lon_idx])

\* C9: a run with datum WGS never calls proj.convert and never ends with
\* an error of the transformer.
InvC9 ==
    args.datum = "WGS" =>
        /\ convert_log = <<>>
        /\ err \notin {"proj", "convert"}

\* ------------------------------------------------------------------------
\* properties of get_mesh_code
\* ------------------------------------------------------------------------
\* C2: the code of each level is the code of the level before it with
\* exactly one character appended, so level number i has i - 1 refinement
\* characters after the Standard code.
InvC2 ==
    \A i \in 2..Len(codes) :
        /\ Augments(codes[i], codes[i - 1])
        /\ Len(codes[i]) = Len(codes[1]) + (i - 1)

WitC2 ==
    /\ Len(codes) = 4
    /\ IsNum(elat)
    /\ IsNum(elon)
    /\ elat.v < 0

\* the coordinates of the data model
InDomain(lat, lon) ==
    /\ IsNum(lat) /\ 0 - 90 * DEG <= lat.v /\ lat.v <= 90 * DEG
    /\ IsNum(lon) /\ 0 - 180 * DEG <= lon.v /\ lon.v <= 180 * DEG

\* C3: for a coordinate of the data model every refinement digit, the last
\* character of the Half, Quarter and Eighth codes, is one of 1, 2, 3, 4.
InvC3 ==
    InDomain(elat, elon) =>
        \A i \in 2..Len(codes) : codes[i][Len(codes[i])] \in {"1", "2", "3", "4"}

\* the six indices of the base cell by floor division, each remainder
\* being the one of its floor quotient (0 <= remainder < width)
BaseIndices(lat, lon) ==
    LET p == lat \div W_p
        a == lat % W_p
        q == a \div W_q
        b == a % W_q
        r == b \div W_r
        u == (lon \div DEG) - 100
        f == lon % DEG
        v == f \div W_v
        g == f % W_v
        w == g \div W_w
    IN <<p, u, q, v, r, w>>

\* C8: for a coordinate of the data model the Standard code is the
\* concatenation of the decimal renderings of p, u, q, v, r, w.
InvC8 ==
    (Len(codes) >= 1 /\ InDomain(elat, elon)) =>
        LET t == BaseIndices(elat.v, elon.v)
        IN codes[1] = IntToString(t[1]) \o IntToString(t[2]) \o IntToString(t[3])
                        \o IntToString(t[4]) \o IntToString(t[5]) \o IntToString(t[6])

\* C10: two coordinates with latitude >= 0 and longitude >= 100 degrees
\* whose base-cell indices differ have different Standard codes.
InvC10 ==
    (/\ Len(codes) >= 1 /\ ocode # <<>>
     /\ InDomain(elat, elon) /\ elat.v >= 0 /\ elon.v >= 100 * DEG
     /\ BaseIndices(elat.v, elon.v) # BaseIndices(olat.v, olon.v))
        => codes[1] # ocode

====
